---- MODULE Spec2Model ----
(***************************************************************************)
(* QueueCTL: a single-node persistent job queue.  The job store is one     *)
(* SQLite table opened in autocommit mode (db.py get_conn,                 *)
(* isolation_level=None), so every SQL statement is its own transaction    *)
(* and other processes run between two statements of one function.         *)
(* Worker processes run worker_loop (worker_core.py); the operator runs    *)
(* enqueue (enqueue.py) and dlq retry (dlq.py).                            *)
(* Timestamps are ISO strings of UTC times; the code only orders them, so  *)
(* they are modelled by the integer clock reading they were taken at.      *)
(***************************************************************************)
EXTENDS Integers, FiniteSets, Sequences, TLC

\* ---------------------------------------------------------------- bounds
NWorkers == 2
NJobs == 2
MaxClock == 1
MaxRetries == 2
MaxAttempts == 3
NOneJobs == 1

\* the attempts and the (whole-number) backoff bases the delay is computed for
MaxExp == 17
MaxBase == 2
\* worker_core.py: the default of QUEUECTL_BACKOFF_BASE, and max_delay
BACKOFF_BASE == 2
MAX_DELAY == 24 * 3600

Workers == 1..NWorkers
\* job ids; the integer order stands for the order of the id strings
JobIds == 1..NJobs
\* the ids a dlq retry can name: one is never enqueued (an unknown id)
AnyId == 1..(NJobs + 1)
RetryVals == 1..MaxRetries
\* what a failed run can leave on stderr
Stderrs == {"\n", "boom\n"}
NULL == "NULL"

VARIABLES
    jobs,      \* the jobs table: id -> row
    clock,     \* the wall clock read by _now_iso / now_iso
    pc,        \* worker -> position in worker_loop
    stop,      \* worker -> _SHOULD_STOP of that process
    now,       \* worker -> local `now` of _claim_one_job
    job,       \* worker -> local job dict (job_id, attempts, max_retries, command)
    out,       \* worker -> result_text / err_summary of the run
    claimed,   \* worker -> the row its claim UPDATE changed: id, attempts before (history)
    ret,       \* what the last dlq retry <job_id> call returned
    registry,  \* the pid file WORKER_FILE written by start_workers
    stopper,   \* the process running `worker stop`: position, pids read, pids to signal
    dlq,       \* the process running `dlq retry --all`: position, rows, loop index, cnt
    backoff,   \* worker -> locals backoff_base and delay of worker_loop
    sup        \* start call -> the process running `worker start`: position, count, procs

vars == <<jobs, clock, pc, stop, now, job, out, claimed, ret, registry, stopper, dlq,
          backoff, sup>>

NoJob == [id |-> 0, attempts |-> 0, max_retries |-> 0, command |-> ""]
NoClaim == [id |-> 0, was |-> 0]
\* WORKER_FILE: does it exist, and the list of {pid, started_at} entries in it
NoFile == [exists |-> FALSE, entries |-> <<>>]
\* `worker stop` / `dlq retry --all` is not running
StopperIdle == [pc |-> "idle", pids |-> {}, todo |-> {}]
DlqIdle == [pc |-> "idle", rows |-> <<>>, i |-> 1, cnt |-> 0]
\* the `worker start` calls of the model: a first pool and a second one
Sups == {1, 2}
\* a `worker start` that has not been called
SupIdle == [pc |-> "idle", count |-> 0, procs |-> <<>>]
\* a `worker start --count NWorkers` that has spawned its workers (pid w for
\* worker w), written the pid file and is polling them
SupWatching == [pc |-> "watch", count |-> NWorkers, procs |-> [k \in 1..NWorkers |-> k]]

\* ------------------------------------------------------------ the store
Ids(s) == DOMAIN s
InState(s, st) == {i \in Ids(s) : s[i].state = st}

\* models.py Job / to_tuple: the row of a fresh job
NewJob(cmd, mr, t) ==
    [command |-> cmd, state |-> "pending", attempts |-> 0, max_retries |-> mr,
     created_at |-> t, updated_at |-> t, last_error |-> NULL, result |-> NULL]

\* an insert that overwrites the row of an id already there (INSERT OR REPLACE)
InsertOrReplace(s, id, row) ==
    [i \in Ids(s) \cup {id} |-> IF i = id THEN row ELSE s[i]]

\* models.py insert_job: INSERT fails on a duplicate primary key
InsertJob(s, id, row) ==
    IF id \in Ids(s) THEN s ELSE s @@ (id :> row)

\* SELECT id FROM jobs WHERE state='pending' ORDER BY created_at LIMIT 1:
\* the rows the subquery may return (SQL leaves the order of ties open)
OldestPending(s) ==
    {i \in InState(s, "pending") :
        \A k \in InState(s, "pending") : s[i].created_at <= s[k].created_at}

\* a claim UPDATE without its WHERE id = (...): it takes every pending row
ClaimAllPending(s, i, t) ==
    [k \in Ids(s) |->
        IF s[k].state = "pending"
        THEN [s[k] EXCEPT !.state = "processing", !.attempts = @ + 1, !.updated_at = t]
        ELSE s[k]]

\* the claim UPDATE of _claim_one_job applied to row i
ClaimRow(s, i, t) ==
    [s EXCEPT ![i].state = "processing",
              ![i].attempts = s[i].attempts + 1,
              ![i].updated_at = t]

\* SELECT * FROM jobs WHERE state='processing' ORDER BY updated_at DESC LIMIT 1
LatestProcessing(s) ==
    {i \in InState(s, "processing") :
        \A k \in InState(s, "processing") : s[k].updated_at <= s[i].updated_at}

\* _update_job_state(job_id, "completed", result=..., last_error=None, attempts=...)
SetCompleted(s, id, res, att, t) ==
    IF id \notin Ids(s) THEN s
    ELSE [s EXCEPT ![id].state = "completed", ![id].result = res,
                   ![id].last_error = NULL, ![id].attempts = att,
                   ![id].updated_at = t]

\* _update_job_state(job_id, "pending", last_error=err_summary)
SetPendingErr(s, id, err, t) ==
    IF id \notin Ids(s) THEN s
    ELSE [s EXCEPT ![id].state = "pending", ![id].last_error = err,
                   ![id].updated_at = t]

\* a stop path that gives the job up instead of returning it to the queue
SetDeadOnStop(s, id, t) ==
    IF id \notin Ids(s) THEN s
    ELSE [s EXCEPT ![id].state = "dead", ![id].updated_at = t]

\* _update_job_state(job_id, "pending")
SetPending(s, id, t) ==
    IF id \notin Ids(s) THEN s
    ELSE [s EXCEPT ![id].state = "pending", ![id].updated_at = t]

\* _update_job_state(job_id, "dead", last_error=err_summary)
SetDead(s, id, err, t) ==
    IF id \notin Ids(s) THEN s
    ELSE [s EXCEPT ![id].state = "dead", ![id].last_error = err,
                   ![id].updated_at = t]

\* dlq.py _retry_job_in_db: rows matched by WHERE id=? AND state='dead'
RetryMatches(s, id) == id \in Ids(s) /\ s[id].state = "dead"

\* the same UPDATE without the "AND state='dead'" safety condition
RetryJobInDbAnyState(s, id, t) ==
    IF id \in Ids(s)
    THEN [s EXCEPT ![id].state = "pending", ![id].attempts = 0,
                   ![id].last_error = NULL, ![id].updated_at = t]
    ELSE s

RetryJobInDb(s, id, t) ==
    IF RetryMatches(s, id)
    THEN [s EXCEPT ![id].state = "pending", ![id].attempts = 0,
                   ![id].last_error = NULL, ![id].updated_at = t]
    ELSE s

\* str.strip() on the texts the commands of the model write; all of them
\* are shorter than the 65500 characters after which line 167 cuts a result
Strip(text) ==
    CASE text = "hello\n" -> "hello"
      [] text = "boom\n" -> "boom"
      [] text = "\n" -> ""
      [] OTHER -> text

\* dlq.py _fetch_dead_jobs: SELECT * FROM jobs WHERE state='dead' ORDER BY
\* updated_at DESC, as the lists of ids the query may return (SQL leaves the
\* order of rows with equal updated_at open)
FetchDeadJobs(s) ==
    LET D == InState(s, "dead")
    IN {r \in [1..Cardinality(D) -> D] :
           /\ \A a, b \in 1..Cardinality(D) : a # b => r[a] # r[b]
           /\ \A a, b \in 1..Cardinality(D) :
                  a < b => s[r[a]].updated_at >= s[r[b]].updated_at}

\* err_summary = (stderr or "").strip() or f"exit_code={exit_code}"
ErrSummary(exit_code, stderr) ==
    IF Strip(stderr) # "" THEN Strip(stderr)
    ELSE IF exit_code = 1 THEN "exit_code=1" ELSE "exit_code=-1"

\* backoff_base ** attempts, on the integers
RECURSIVE Pow(_, _)
Pow(b, a) == IF a = 0 THEN 1 ELSE b * Pow(b, a - 1)

Min(x, y) == IF x <= y THEN x ELSE y

\* worker_loop lines 183-184 with the cap left out: delay = backoff_base ** attempts
UncappedDelay(b, a) == Pow(b, a)

\* worker_loop lines 181-184: delay = backoff_base ** attempts;
\* max_delay = 24 * 3600; delay = min(delay, max_delay)
BackoffDelay(b, a) == Min(Pow(b, a), MAX_DELAY)

\* the commands are named by how they can exit: "exit1" always fails,
\* "flaky" exits 0 or 1 or runs into the job timeout, which _run_command
\* turns into exit code -1 ("" is the missing command of enqueue)
ExitCodes(cmd) == IF cmd = "exit1" THEN {1} ELSE {0, 1, -1}

\* workers.py _write_workers_file_from_pids, line 18: one {pid, started_at}
\* entry per pid of the list, in the order of the list
WorkersFileData(pids, t) ==
    [k \in 1..Len(pids) |-> [pid |-> pids[k], started_at |-> t]]

\* workers.py _read_pids_file: the pids of the entries ([] without a file),
\* as a set (stop_workers signals them in the order of the list, which is
\* the order in which start_workers spawned them: lowest pid first)
ReadPidsFile(r) ==
    IF r.exists THEN {r.entries[k].pid : k \in 1..Len(r.entries)} ELSE {}

\* Process.is_alive(): the worker process has been started and has neither
\* left worker_loop nor been killed
Alive(w) == pc[w] \notin {"unborn", "exited", "killed"}

\* ----------------------------------------------------------------- Init
\* a pool of NWorkers workers that `worker start` has spawned and registered
Init ==
    /\ jobs = <<>>
    /\ clock = 0
    /\ pc = [w \in Workers |-> "top"]
    /\ stop = [w \in Workers |-> FALSE]
    /\ now = [w \in Workers |-> 0]
    /\ job = [w \in Workers |-> NoJob]
    /\ out = [w \in Workers |-> NULL]
    /\ claimed = [w \in Workers |-> NoClaim]
    /\ ret = "none"
    /\ registry = [exists |-> TRUE, entries |-> WorkersFileData(SupWatching.procs, 0)]
    /\ stopper = StopperIdle
    /\ dlq = DlqIdle
    /\ backoff = [w \in Workers |-> [base |-> BACKOFF_BASE, delay |-> 0]]
    /\ sup = [s \in Sups |-> IF s = 1 THEN SupWatching ELSE SupIdle]

\* -------------------------------------------------------------- actions
\* the locals of one loop iteration are dead once the iteration is over
Forget(w) ==
    /\ job' = [job EXCEPT ![w] = NoJob]
    /\ out' = [out EXCEPT ![w] = NULL]
    /\ now' = [now EXCEPT ![w] = 0]
    /\ claimed' = [claimed EXCEPT ![w] = NoClaim]
    /\ backoff' = [backoff EXCEPT ![w].delay = 0]

\* time passes
Tick ==
    /\ clock < MaxClock
    /\ clock' = clock + 1
    /\ UNCHANGED <<jobs, pc, stop, now, job, out, claimed, ret, registry, stopper, dlq, backoff, sup>>

\* enqueue.py enqueue: a missing command exits before the insert
Enqueue(id, cmd, mr) ==
    /\ jobs' = IF cmd = "" THEN jobs ELSE InsertJob(jobs, id, NewJob(cmd, mr, clock))
    /\ UNCHANGED <<clock, pc, stop, now, job, out, claimed, ret, registry, stopper, dlq, backoff, sup>>

\* how enqueue.py enqueue ends: SystemExit(1) at line 40 for a missing
\* command, the sqlite3.IntegrityError of the INSERT for an id already in
\* the table, else "Enqueued job ..."
EnqueueExit(s, id, cmd) ==
    IF cmd = "" THEN "SystemExit(1)"
    ELSE IF id \in Ids(s) THEN "IntegrityError" ELSE "enqueued"

\* worker_core.py _on_term: SIGTERM / SIGINT sets the stop flag
OnTerm(w) ==
    /\ Alive(w)
    /\ ~stop[w]
    /\ stop' = [stop EXCEPT ![w] = TRUE]
    /\ UNCHANGED <<jobs, clock, pc, now, job, out, claimed, ret, registry, stopper, dlq, backoff, sup>>

\* a loop that never looks at the stop flag: while True
LoopTopIgnoresStop(w) ==
    /\ pc[w] = "top"
    /\ pc' = [pc EXCEPT ![w] = "update"]
    /\ now' = [now EXCEPT ![w] = clock]
    /\ UNCHANGED <<jobs, clock, stop, job, out, claimed, ret, registry, stopper, dlq, backoff, sup>>

\* while not _SHOULD_STOP: ... now = _now_iso()
LoopTop(w) ==
    /\ pc[w] = "top"
    /\ IF stop[w]
       THEN /\ pc' = [pc EXCEPT ![w] = "exited"]
            /\ UNCHANGED now
       ELSE /\ pc' = [pc EXCEPT ![w] = "update"]
            /\ now' = [now EXCEPT ![w] = clock]
    /\ UNCHANGED <<jobs, clock, stop, job, out, claimed, ret, registry, stopper, dlq, backoff, sup>>

\* _claim_one_job, the UPDATE statement; rowcount 0 returns None and the
\* loop sleeps and polls again
ClaimUpdate(w) ==
    /\ pc[w] = "update"
    /\ IF OldestPending(jobs) = {}
       THEN /\ pc' = [pc EXCEPT ![w] = "top"]
            /\ now' = [now EXCEPT ![w] = 0]
            /\ UNCHANGED <<jobs, claimed>>
       ELSE \E i \in OldestPending(jobs) :
            /\ jobs[i].attempts < MaxAttempts
            /\ jobs' = ClaimRow(jobs, i, now[w])
            /\ claimed' = [claimed EXCEPT ![w] = [id |-> i, was |-> jobs[i].attempts]]
            /\ pc' = [pc EXCEPT ![w] = "select"]
            /\ now' = [now EXCEPT ![w] = 0]
    /\ UNCHANGED <<clock, stop, job, out, ret, registry, stopper, dlq, backoff, sup>>

\* _claim_one_job, the read-back SELECT, and worker_loop lines 147-155
ClaimSelect(w) ==
    /\ pc[w] = "select"
    /\ IF LatestProcessing(jobs) = {}
       THEN /\ pc' = [pc EXCEPT ![w] = "top"]
            /\ claimed' = [claimed EXCEPT ![w] = NoClaim]
            /\ UNCHANGED job
       ELSE \E i \in LatestProcessing(jobs) :
            /\ job' = [job EXCEPT ![w] =
                          [id |-> i, attempts |-> jobs[i].attempts,
                           max_retries |-> jobs[i].max_retries,
                           command |-> jobs[i].command]]
            /\ pc' = [pc EXCEPT ![w] = "run"]
            /\ UNCHANGED claimed
    /\ UNCHANGED <<jobs, clock, stop, now, out, ret, registry, stopper, dlq, backoff, sup>>

\* _run_command and the branch on its exit code
RunCommand(w, code, so, se) ==
    /\ pc[w] = "run"
    /\ code \in ExitCodes(job[w].command)
    /\ IF code = 0
       THEN /\ out' = [out EXCEPT ![w] = Strip(so)]
            /\ pc' = [pc EXCEPT ![w] = "complete"]
            /\ UNCHANGED backoff
       ELSE /\ out' = [out EXCEPT ![w] = ErrSummary(code, se)]
            /\ pc' = [pc EXCEPT ![w] =
                         IF job[w].attempts < job[w].max_retries
                         THEN "backoff" ELSE "dead"]
            /\ backoff' = IF job[w].attempts < job[w].max_retries
                          THEN [backoff EXCEPT ![w].delay =
                                   BackoffDelay(backoff[w].base, job[w].attempts)]
                          ELSE backoff
    /\ UNCHANGED <<jobs, clock, stop, now, job, claimed, ret, registry, stopper, dlq, sup>>

\* worker_loop line 168
MarkCompleted(w) ==
    /\ pc[w] = "complete"
    /\ jobs' = SetCompleted(jobs, job[w].id, out[w], job[w].attempts, clock)
    /\ pc' = [pc EXCEPT ![w] = "top"]
    /\ Forget(w)
    /\ UNCHANGED <<clock, stop, ret, registry, stopper, dlq, sup>>

\* the backoff sleep ends (delay slept or stop seen), then `if _SHOULD_STOP`
BackoffEnd(w) ==
    /\ pc[w] = "backoff"
    /\ pc' = [pc EXCEPT ![w] = IF stop[w] THEN "stop_requeue" ELSE "requeue"]
    /\ UNCHANGED <<jobs, clock, stop, now, job, out, claimed, ret,
                   registry, stopper, dlq, backoff, sup>>

\* worker_loop line 199, then break
StopRequeue(w) ==
    /\ pc[w] = "stop_requeue"
    /\ jobs' = SetPending(jobs, job[w].id, clock)
    /\ pc' = [pc EXCEPT ![w] = "exited"]
    /\ Forget(w)
    /\ UNCHANGED <<clock, stop, ret, registry, stopper, dlq, sup>>

\* worker_loop line 206
Requeue(w) ==
    /\ pc[w] = "requeue"
    /\ jobs' = SetPendingErr(jobs, job[w].id, out[w], clock)
    /\ pc' = [pc EXCEPT ![w] = "top"]
    /\ Forget(w)
    /\ UNCHANGED <<clock, stop, ret, registry, stopper, dlq, sup>>

\* worker_loop line 212
MarkDead(w) ==
    /\ pc[w] = "dead"
    /\ jobs' = SetDead(jobs, job[w].id, out[w], clock)
    /\ pc' = [pc EXCEPT ![w] = "top"]
    /\ Forget(w)
    /\ UNCHANGED <<clock, stop, ret, registry, stopper, dlq, sup>>

\* dlq.py dlq_retry <job_id>: ok = _retry_job_in_db(job_id)
Revive(id) ==
    /\ jobs' = RetryJobInDb(jobs, id, clock)
    /\ ret' = IF RetryMatches(jobs, id) THEN "true" ELSE "false"
    /\ UNCHANGED <<clock, pc, stop, now, job, out, claimed, registry, stopper, dlq, backoff, sup>>

\* worker_loop lines 141-145: _claim_one_job raises at its UPDATE (sqlite3
\* error, e.g. the database stays locked for the 30 s timeout); the loop
\* logs, sleeps 1 s and continues
ClaimFails(w) ==
    /\ pc[w] = "update"
    /\ pc' = [pc EXCEPT ![w] = "top"]
    /\ now' = [now EXCEPT ![w] = 0]
    /\ UNCHANGED <<jobs, clock, stop, job, out, claimed, ret, registry, stopper, dlq, backoff, sup>>

\* a resolution write whose error is not caught and ends the process
WriteFailsUncaught(w) ==
    /\ pc[w] \in {"complete", "requeue", "dead"}
    /\ pc' = [pc EXCEPT ![w] = "exited"]
    /\ Forget(w)
    /\ UNCHANGED <<jobs, clock, stop, ret, registry, stopper, dlq, sup>>

\* worker_loop lines 169-170, 207-208, 213-214: _update_job_state raises,
\* the except clause logs and the loop goes on
WriteFails(w) ==
    /\ pc[w] \in {"complete", "requeue", "dead"}
    /\ pc' = [pc EXCEPT ![w] = "top"]
    /\ Forget(w)
    /\ UNCHANGED <<jobs, clock, stop, ret, registry, stopper, dlq, sup>>

\* worker_loop lines 200-202: _update_job_state raises, except: pass, break
StopRequeueFails(w) ==
    /\ pc[w] = "stop_requeue"
    /\ pc' = [pc EXCEPT ![w] = "exited"]
    /\ Forget(w)
    /\ UNCHANGED <<jobs, clock, stop, ret, registry, stopper, dlq, sup>>

\* dlq.py dlq_retry --all, lines 103-107: rows = _fetch_dead_jobs(); with no
\* rows the command says so and returns
RetryAllFetch ==
    /\ dlq.pc \in {"idle", "returned"}
    /\ \E r \in FetchDeadJobs(jobs) :
          dlq' = [pc |-> IF Len(r) = 0 THEN "returned" ELSE "loop",
                  rows |-> r, i |-> 1, cnt |-> 0]
    /\ UNCHANGED <<jobs, clock, pc, stop, now, job, out, claimed, ret, registry, stopper, backoff, sup>>

\* a loop body that counts every row of the snapshot, revived or not
RetryAllStepCountsAll ==
    /\ dlq.pc = "loop"
    /\ dlq.i <= Len(dlq.rows)
    /\ jobs' = RetryJobInDb(jobs, dlq.rows[dlq.i], clock)
    /\ dlq' = [dlq EXCEPT !.i = @ + 1, !.cnt = @ + 1]
    /\ UNCHANGED <<clock, pc, stop, now, job, out, claimed, ret, registry, stopper, backoff, sup>>

\* dlq_retry --all, lines 108-111: ok = _retry_job_in_db(r["id"]); if ok: cnt += 1
RetryAllStep ==
    /\ dlq.pc = "loop"
    /\ dlq.i <= Len(dlq.rows)
    /\ jobs' = RetryJobInDb(jobs, dlq.rows[dlq.i], clock)
    /\ dlq' = [dlq EXCEPT !.i = @ + 1,
                          !.cnt = IF RetryMatches(jobs, dlq.rows[dlq.i]) THEN @ + 1 ELSE @]
    /\ UNCHANGED <<clock, pc, stop, now, job, out, claimed, ret, registry, stopper, backoff, sup>>

\* dlq_retry --all, lines 112-113: echo "Retried {cnt} job(s) from DLQ.", return
RetryAllReturn ==
    /\ dlq.pc = "loop"
    /\ dlq.i > Len(dlq.rows)
    /\ dlq' = [dlq EXCEPT !.pc = "returned"]
    /\ UNCHANGED <<jobs, clock, pc, stop, now, job, out, claimed, ret, registry, stopper, backoff, sup>>

\* workers.py stop_workers lines 102-107: pids = _read_pids_file(), which is
\* empty when the file is missing; without pids the command returns
StopRead ==
    /\ stopper.pc = "idle"
    /\ stopper' = IF ReadPidsFile(registry) = {}
                  THEN [pc |-> "returned", pids |-> {}, todo |-> {}]
                  ELSE [pc |-> "term", pids |-> ReadPidsFile(registry),
                        todo |-> ReadPidsFile(registry)]
    /\ UNCHANGED <<jobs, clock, pc, stop, now, job, out, claimed, ret, registry, dlq, backoff, sup>>

\* stop_workers lines 108-115: os.kill(pid, SIGTERM) for the next pid of the
\* list; a live worker runs _on_term, a pid that is gone raises
\* ProcessLookupError, which is reported and skipped
StopTerm ==
    /\ stopper.pc = "term"
    /\ stopper.todo # {}
    /\ LET w == CHOOSE x \in stopper.todo : \A y \in stopper.todo : x <= y
       IN /\ stop' = IF Alive(w) THEN [stop EXCEPT ![w] = TRUE] ELSE stop
          /\ stopper' = [stopper EXCEPT !.todo = @ \ {w}]
    /\ UNCHANGED <<jobs, clock, pc, now, job, out, claimed, ret, registry, dlq, backoff, sup>>

\* stop_workers lines 117-123: sleep(1.5), unlink the pid file, return.
\* The 1.5 s outlast the 1 s sleeps and the store statements of a signalled
\* worker, but not a command, which may run for JOB_TIMEOUT = 30 s: when
\* the sleep is over a recorded worker is gone or is running a command
StopUnlink ==
    /\ stopper.pc = "term"
    /\ stopper.todo = {}
    /\ \A w \in stopper.pids : ~Alive(w) \/ pc[w] = "run"
    /\ registry' = NoFile
    /\ stopper' = [stopper EXCEPT !.pc = "returned"]
    /\ UNCHANGED <<jobs, clock, pc, stop, now, job, out, claimed, ret, dlq, backoff, sup>>

\* the worker processes that have not been spawned yet
Unborn == {w \in Workers : pc[w] = "unborn"}

\* the workers start call s has still to spawn
ToSpawn(s) == IF sup[s].pc = "spawn" THEN sup[s].count - Len(sup[s].procs) ELSE 0

\* workers.py start_workers is called with --count count; the model has
\* NWorkers processes to hand out to the start calls. (worker_core.py
\* lines 32-34 run when workers.py imports it, so in this process too SIGINT
\* and SIGTERM only set a flag: KeyboardInterrupt is not raised and lines
\* 74-88 are never reached.)
StartCall(s, count) ==
    /\ sup[s].pc = "idle"
    /\ count + ToSpawn(1) + ToSpawn(2) <= Cardinality(Unborn)
    /\ sup' = [sup EXCEPT ![s] = [pc |-> "spawn", count |-> count, procs |-> <<>>]]
    /\ UNCHANGED <<jobs, clock, pc, stop, now, job, out, claimed, ret, registry, stopper,
                   dlq, backoff>>

\* start_workers lines 45-50: one pass of the loop, p.start() and
\* pids.append(p.pid); the new process enters worker_loop
SupSpawn(s) ==
    /\ sup[s].pc = "spawn"
    /\ Len(sup[s].procs) < sup[s].count
    /\ LET w == CHOOSE x \in Unborn : \A y \in Unborn : x <= y
       IN /\ pc' = [pc EXCEPT ![w] = "top"]
          /\ sup' = [sup EXCEPT ![s].procs = Append(@, w)]
    /\ UNCHANGED <<jobs, clock, stop, now, job, out, claimed, ret, registry, stopper,
                   dlq, backoff>>

\* start_workers line 53: _write_workers_file_from_pids(pids) replaces the
\* pid file (tmp.replace) by the list of this call's workers
SupWrite(s) ==
    /\ sup[s].pc = "spawn"
    /\ Len(sup[s].procs) = sup[s].count
    /\ registry' = [exists |-> TRUE, entries |-> WorkersFileData(sup[s].procs, clock)]
    /\ sup' = [sup EXCEPT ![s].pc = "watch"]
    /\ UNCHANGED <<jobs, clock, pc, stop, now, job, out, claimed, ret, stopper, dlq,
                   backoff>>

\* a supervisor that stops waiting as soon as one of its workers is gone:
\* if not all(alive): break
SupPollAnyGone(s) ==
    /\ sup[s].pc = "watch"
    /\ \E k \in 1..Len(sup[s].procs) : ~Alive(sup[s].procs[k])
    /\ sup' = [sup EXCEPT ![s].pc = "cleanup"]
    /\ UNCHANGED <<jobs, clock, pc, stop, now, job, out, claimed, ret, registry, stopper,
                   dlq, backoff>>

\* start_workers lines 67-73: alive = [p.is_alive() for p in procs]; break
\* when none is alive (else sleep(1) and look again)
SupPoll(s) ==
    /\ sup[s].pc = "watch"
    /\ \A k \in 1..Len(sup[s].procs) : ~Alive(sup[s].procs[k])
    /\ sup' = [sup EXCEPT ![s].pc = "cleanup"]
    /\ UNCHANGED <<jobs, clock, pc, stop, now, job, out, claimed, ret, registry, stopper,
                   dlq, backoff>>

\* start_workers lines 91-96: unlink the pid file if there is one, return
SupCleanup(s) ==
    /\ sup[s].pc = "cleanup"
    /\ registry' = NoFile
    /\ sup' = [sup EXCEPT ![s].pc = "returned"]
    /\ UNCHANGED <<jobs, clock, pc, stop, now, job, out, claimed, ret, stopper, dlq,
                   backoff>>

\* the steps of one `worker start` process once it has been called
SupStep(s) == SupSpawn(s) \/ SupWrite(s) \/ SupPoll(s) \/ SupCleanup(s)

\* a worker process is killed (SIGKILL) or crashes: it runs no further
\* statement. Its locals are gone with it; job[w] is kept to name the job
\* it held.
Kill(w) ==
    /\ Alive(w)
    /\ pc' = [pc EXCEPT ![w] = "killed"]
    /\ UNCHANGED <<jobs, clock, stop, now, job, out, claimed, ret, registry, stopper,
                   dlq, backoff, sup>>

\* ------------------------------------------------------- specifications
\* Spec: a running pool of NWorkers workers that gets no stop signal, and
\* the operator enqueueing flaky commands and retrying dead jobs
Next ==
    \/ Tick
    \/ \E id \in JobIds, cmd \in {"flaky", ""}, mr \in RetryVals : Enqueue(id, cmd, mr)
    \/ \E id \in AnyId : Revive(id)
    \/ \E w \in Workers :
          \/ LoopTop(w)
          \/ ClaimUpdate(w)
          \/ ClaimSelect(w)
          \/ \E code \in {0, 1} : RunCommand(w, code, "hello\n", "")
          \/ MarkCompleted(w)
          \/ BackoffEnd(w)
          \/ Requeue(w)
          \/ MarkDead(w)

Spec == Init /\ [][Next]_vars

\* SpecFail: a pool of NWorkers workers and jobs whose command always
\* fails; no stop signal, no operator retry
NextFail ==
    \/ Tick
    \/ \E id \in JobIds, mr \in RetryVals : Enqueue(id, "exit1", mr)
    \/ \E w \in Workers :
          \/ LoopTop(w)
          \/ ClaimUpdate(w)
          \/ ClaimSelect(w)
          \/ \E se \in Stderrs : RunCommand(w, 1, "", se)
          \/ BackoffEnd(w)
          \/ Requeue(w)
          \/ MarkDead(w)

SpecFail == Init /\ [][NextFail]_vars

\* SpecOne: the default pool of one worker (worker start --count 1) and a
\* store of at most NOneJobs jobs; stop signals, the operator
NextOne ==
    \/ Tick
    \/ \E id \in 1..NOneJobs, cmd \in {"flaky", ""}, mr \in RetryVals : Enqueue(id, cmd, mr)
    \/ \E id \in 1..(NOneJobs + 1) : Revive(id)
    \/ OnTerm(1)
    \/ LoopTop(1)
    \/ ClaimUpdate(1)
    \/ ClaimSelect(1)
    \/ \E code \in {0, 1} : RunCommand(1, code, "hello\n", "")
    \/ MarkCompleted(1)
    \/ BackoffEnd(1)
    \/ StopRequeue(1)
    \/ Requeue(1)
    \/ MarkDead(1)

SpecOne == Init /\ [][NextOne]_vars

\* SpecErr: one worker and at most NOneJobs jobs with max_retries 2 (one
\* requeue, then dead), with everything that can go wrong inside
\* worker_loop: store errors at the claim and at the resolution writes,
\* commands that time out, stop signals
WorkerErr(w) ==
    \/ LoopTop(w)
    \/ ClaimUpdate(w)
    \/ ClaimFails(w)
    \/ ClaimSelect(w)
    \/ \E code \in {0, 1} : RunCommand(w, code, "hello\n", "")
    \/ RunCommand(w, -1, "", "TimeoutExpired")
    \/ MarkCompleted(w)
    \/ BackoffEnd(w)
    \/ StopRequeue(w)
    \/ StopRequeueFails(w)
    \/ Requeue(w)
    \/ MarkDead(w)
    \/ WriteFails(w)

NextErr ==
    \/ Tick
    \/ \E id \in 1..NOneJobs : Enqueue(id, "flaky", 2)
    \/ OnTerm(1)
    \/ WorkerErr(1)

SpecErr == Init /\ [][NextErr]_vars

\* SpecEnq: the operator enqueueing jobs (some without a command, some under
\* an id already taken) while one worker runs them; the commands always
\* fail, so the records already there are pending, processing or dead
NextEnq ==
    \/ Tick
    \/ \E id \in JobIds, cmd \in {"exit1", ""}, mr \in {1, MaxRetries} : Enqueue(id, cmd, mr)
    \/ LoopTop(1)
    \/ ClaimUpdate(1)
    \/ ClaimSelect(1)
    \/ RunCommand(1, 1, "", "boom\n")
    \/ BackoffEnd(1)
    \/ Requeue(1)
    \/ MarkDead(1)

SpecEnq == Init /\ [][NextEnq]_vars

\* SpecStop: a pool of NWorkers workers sharing at most NOneJobs jobs, and
\* the operator running `worker stop` once
NextStop ==
    \/ Tick
    \/ \E id \in 1..NOneJobs, mr \in RetryVals : Enqueue(id, "flaky", mr)
    \/ StopRead
    \/ StopTerm
    \/ StopUnlink
    \/ \E w \in Workers :
          \/ LoopTop(w)
          \/ ClaimUpdate(w)
          \/ ClaimSelect(w)
          \/ \E code \in {0, 1} : RunCommand(w, code, "hello\n", "")
          \/ MarkCompleted(w)
          \/ BackoffEnd(w)
          \/ StopRequeue(w)
          \/ Requeue(w)
          \/ MarkDead(w)

SpecStop == Init /\ [][NextStop]_vars

\* SpecDlq: the operator running `dlq retry --all` while one worker moves
\* jobs (always failing, one attempt each) to dead and another operator
\* retries single jobs
NextDlq ==
    \/ \E id \in JobIds : Enqueue(id, "exit1", 1)
    \/ \E id \in JobIds : Revive(id)
    \/ RetryAllFetch
    \/ RetryAllStep
    \/ RetryAllReturn
    \/ LoopTop(1)
    \/ ClaimUpdate(1)
    \/ ClaimSelect(1)
    \/ RunCommand(1, 1, "", "boom\n")
    \/ MarkDead(1)

SpecDlq == Init /\ [][NextDlq]_vars

\* SpecFrame: every operation that writes a job record, on a store of up to
\* NJobs jobs with max_retries 2 (one requeue, then dead): the operator
\* enqueueing and retrying, one worker claiming, completing, requeueing
\* and dead-lettering
NextFrame ==
    \/ Tick
    \/ \E id \in JobIds : Enqueue(id, "flaky", 2)
    \/ \E id \in JobIds : Revive(id)
    \/ LoopTop(1)
    \/ ClaimUpdate(1)
    \/ ClaimSelect(1)
    \/ \E code \in {0, 1} : RunCommand(1, code, "hello\n", "")
    \/ MarkCompleted(1)
    \/ BackoffEnd(1)
    \/ Requeue(1)
    \/ MarkDead(1)

SpecFrame == Init /\ [][NextFrame]_vars

\* SpecDelay: the backoff of one worker for every base in 0..MaxBase
\* (QUEUECTL_BACKOFF_BASE) and every attempt count in 1..MaxExp. It starts
\* where the worker has claimed the job for the a-th time (max_retries is
\* a + 1, so that a failure is retried) and is about to run its command.
InitDelay ==
    \E b \in 0..MaxBase, a \in 1..MaxExp :
        /\ jobs = (1 :> [command |-> "exit1", state |-> "processing",
                         attempts |-> a, max_retries |-> a + 1,
                         created_at |-> 0, updated_at |-> 0,
                         last_error |-> IF a = 1 THEN NULL ELSE "boom",
                         result |-> NULL])
        /\ clock = 0
        /\ pc = [w \in Workers |-> IF w = 1 THEN "run" ELSE "top"]
        /\ stop = [w \in Workers |-> FALSE]
        /\ now = [w \in Workers |-> 0]
        /\ job = [w \in Workers |->
                     IF w = 1
                     THEN [id |-> 1, attempts |-> a, max_retries |-> a + 1,
                           command |-> "exit1"]
                     ELSE NoJob]
        /\ out = [w \in Workers |-> NULL]
        /\ claimed = [w \in Workers |->
                         IF w = 1 THEN [id |-> 1, was |-> a - 1] ELSE NoClaim]
        /\ ret = "none"
        /\ registry = [exists |-> TRUE, entries |-> WorkersFileData(SupWatching.procs, 0)]
        /\ stopper = StopperIdle
        /\ dlq = DlqIdle
        /\ sup = [s \in Sups |-> IF s = 1 THEN SupWatching ELSE SupIdle]
        /\ backoff = [w \in Workers |->
                         [base |-> IF w = 1 THEN b ELSE BACKOFF_BASE, delay |-> 0]]

NextDelay ==
    \/ RunCommand(1, 1, "", "boom\n")
    \/ BackoffEnd(1)
    \/ Requeue(1)

SpecDelay == InitDelay /\ [][NextDelay]_vars

\* before any `worker start`: no worker process, no pid file
InitStart ==
    /\ jobs = <<>>
    /\ clock = 0
    /\ pc = [w \in Workers |-> "unborn"]
    /\ stop = [w \in Workers |-> FALSE]
    /\ now = [w \in Workers |-> 0]
    /\ job = [w \in Workers |-> NoJob]
    /\ out = [w \in Workers |-> NULL]
    /\ claimed = [w \in Workers |-> NoClaim]
    /\ ret = "none"
    /\ registry = NoFile
    /\ stopper = StopperIdle
    /\ dlq = DlqIdle
    /\ backoff = [w \in Workers |-> [base |-> BACKOFF_BASE, delay |-> 0]]
    /\ sup = [s \in Sups |-> SupIdle]

\* what the workers of a pool do in the specifications of the pool
\* manager: they run jobs that get one attempt, are signalled, are killed
PoolWorker(w) ==
    \/ OnTerm(w)
    \/ Kill(w)
    \/ LoopTop(w)
    \/ ClaimUpdate(w)
    \/ ClaimSelect(w)
    \/ \E code \in {0, 1} : RunCommand(w, code, "hello\n", "")
    \/ MarkCompleted(w)
    \/ MarkDead(w)

\* SpecStart: one `worker start --count n` (n in 1..NWorkers) from the
\* call to its return, its workers and at most NOneJobs jobs, all within
\* one reading of the clock
NextStart ==
    \/ \E id \in 1..NOneJobs : Enqueue(id, "flaky", 1)
    \/ \E count \in 1..NWorkers : StartCall(1, count)
    \/ SupStep(1)
    \/ \E w \in Workers : PoolWorker(w)

SpecStart == InitStart /\ [][NextStart]_vars

\* SpecStartFair: SpecStart with a supervising process that keeps being
\* scheduled (its loop sleeps 1 s between two looks at its workers)
SpecStartFair == SpecStart /\ WF_vars(SupStep(1))

\* SpecKill: a running pool of NWorkers workers sharing up to NJobs jobs
\* with max_retries 2; a worker can be killed while it runs a command or
\* sleeps its backoff; the operator retries jobs
NextKill ==
    \/ Tick
    \/ \E id \in JobIds : Enqueue(id, "flaky", 2)
    \/ \E id \in JobIds : Revive(id)
    \/ \E w \in Workers :
          \/ pc[w] \in {"run", "backoff"} /\ Kill(w)
          \/ LoopTop(w)
          \/ ClaimUpdate(w)
          \/ ClaimSelect(w)
          \/ \E code \in {0, 1} : RunCommand(w, code, "hello\n", "")
          \/ MarkCompleted(w)
          \/ BackoffEnd(w)
          \/ Requeue(w)
          \/ MarkDead(w)

SpecKill == Init /\ [][NextKill]_vars

\* what a worker does in a pool that gets no signal, when every job has
\* max_retries 1 (a failed run goes to dead, there is no backoff)
PoolStep(w) ==
    \/ LoopTop(w)
    \/ ClaimUpdate(w)
    \/ ClaimSelect(w)
    \/ \E code \in {0, 1} : RunCommand(w, code, "hello\n", "")
    \/ MarkCompleted(w)
    \/ MarkDead(w)

\* SpecRace: a running pool of NWorkers workers and up to NJobs jobs with
\* max_retries 1; no signal, no kill, no store error, no operator retry
NextRace ==
    \/ Tick
    \/ \E id \in JobIds : Enqueue(id, "flaky", 1)
    \/ \E w \in Workers : PoolStep(w)

SpecRace == Init /\ [][NextRace]_vars

\* SpecRaceFair: SpecRace with worker processes that keep being scheduled;
\* every command terminates (RunCommand is a step of the worker)
SpecRaceFair == SpecRace /\ \A w \in Workers : WF_vars(PoolStep(w))

\* SpecPools: two `worker start` calls that share the NWorkers workers
\* between them, one `worker stop`, the workers and at most NOneJobs jobs,
\* all within one reading of the clock
NextPools ==
    \/ \E id \in 1..NOneJobs : Enqueue(id, "flaky", 1)
    \/ \E s \in Sups, count \in 1..NWorkers : StartCall(s, count)
    \/ \E s \in Sups : SupStep(s)
    \/ StopRead
    \/ StopTerm
    \/ StopUnlink
    \/ \E w \in Workers : PoolWorker(w)

SpecPools == InitStart /\ [][NextPools]_vars

\* SpecErrFair: SpecErr with a worker process that keeps being scheduled:
\* every statement of worker_loop returns (sleeps are bounded, the store
\* gives up after its 30 s timeout, a command is cut off by JOB_TIMEOUT)
SpecErrFair == SpecErr /\ WF_vars(WorkerErr(1))

\* ------------------------------------------------------------- the claims
\* worker w has claimed a job and not yet written its resolution
Holding(w) == pc[w] \in {"run", "complete", "backoff", "requeue", "stop_requeue", "dead"}

\* a worker step wrote (or tried to write) the resolution of its job
Resolves(w) ==
    /\ pc[w] \in {"complete", "requeue", "stop_requeue", "dead"}
    /\ pc'[w] # pc[w]

\* C1: no job is held by two workers at the same time.
C1_ExclusiveHold ==
    \A w1, w2 \in Workers :
        (w1 # w2 /\ Holding(w1) /\ Holding(w2)) => job[w1].id # job[w2].id

\* C2: a claim that returns a job returns the row its own UPDATE moved to
\* processing, with attempts one more than before the claim.
C2_ClaimReturnsOwnRow ==
    \A w \in Workers :
        pc[w] = "run" =>
            /\ job[w].id = claimed[w].id
            /\ job[w].attempts = claimed[w].was + 1

LegalTransitions ==
    {<<"pending", "processing">>, <<"processing", "completed">>,
     <<"processing", "pending">>, <<"processing", "dead">>, <<"dead", "pending">>}

\* C3: every state change of a job is a legal transition, and a resolution
\* write on a job that is not processing changes nothing.
C3_OnlyLegalTransitions ==
    [][ /\ \A i \in Ids(jobs) :
              jobs'[i].state # jobs[i].state =>
                  <<jobs[i].state, jobs'[i].state>> \in LegalTransitions
        /\ \A w \in Workers :
              (Resolves(w) /\ jobs[job[w].id].state # "processing") => jobs' = jobs
      ]_vars

\* the pending job that is first by (created_at, id)
FirstPending(s) ==
    CHOOSE i \in OldestPending(s) : \A k \in OldestPending(s) : i <= k

\* C4: the claim moves the pending job that is first by created_at and then
\* by id, returns that job, and returns none only when no job was pending.
C4_ClaimsFirstPending ==
    [][ \A w \in Workers :
          /\ (pc[w] = "update" /\ pc'[w] = "select") =>
                 claimed'[w].id = FirstPending(jobs)
          /\ (pc[w] = "update" /\ pc'[w] = "top") => InState(jobs, "pending") = {}
          /\ pc[w] = "select" => (pc'[w] = "run" /\ job'[w].id = claimed[w].id)
      ]_vars

\* C5: a job whose command always fails goes pending, processing, ... , dead:
\* each claim adds one attempt, a requeue happens only below max_retries and
\* keeps attempts, and the job becomes dead with attempts = max_retries.
C5_FailSequence ==
    [][ \A i \in Ids(jobs) :
          LET a == jobs[i]
              b == jobs'[i]
          IN  IF a.state = b.state THEN b.attempts = a.attempts
              ELSE \/ /\ a.state = "pending" /\ b.state = "processing"
                      /\ a.attempts < a.max_retries
                      /\ b.attempts = a.attempts + 1
                   \/ /\ a.state = "processing" /\ b.state = "pending"
                      /\ a.attempts < a.max_retries
                      /\ b.attempts = a.attempts
                   \/ /\ a.state = "processing" /\ b.state = "dead"
                      /\ b.attempts = a.attempts
                      /\ b.attempts = a.max_retries
      ]_vars

\* C6: a job becomes dead only by the dead write of a worker whose run of
\* that job failed, at a moment when the stored attempts >= max_retries.
C6_DeadOnlyWhenExhausted ==
    [][ \A i \in Ids(jobs) :
          (jobs[i].state # "dead" /\ jobs'[i].state = "dead") =>
              /\ \E w \in Workers : pc[w] = "dead" /\ pc'[w] = "top" /\ job[w].id = i
              /\ jobs[i].attempts >= jobs[i].max_retries
      ]_vars

\* C7: the stored attempts of a job is lowered only by the revive of a dead
\* job, which sets it to 0; no worker step lowers it.
C7_AttemptsMonotone ==
    [][ \A i \in Ids(jobs) :
          jobs'[i].attempts < jobs[i].attempts =>
              /\ pc' = pc
              /\ jobs[i].state = "dead"
              /\ jobs'[i].state = "pending"
              /\ jobs'[i].attempts = 0
      ]_vars

\* C8: a completed job never changes state again, and a dead job changes
\* state only by revive, to pending.
C8_TerminalStates ==
    [][ \A i \in Ids(jobs) :
          /\ jobs[i].state = "completed" => jobs'[i].state = "completed"
          /\ (jobs[i].state = "dead" /\ jobs'[i].state # "dead") =>
                 (jobs'[i].state = "pending" /\ pc' = pc)
      ]_vars

\* C9: revive of a dead job sets it to pending with attempts 0 and no
\* last_error and returns true; revive of any other id returns false and
\* changes no row; a second revive right after changes nothing more.
C9_Revive ==
    [][ \A id \in 1..(NOneJobs + 1) :
          Revive(id) =>
              /\ IF id \in Ids(jobs) /\ jobs[id].state = "dead"
                 THEN /\ ret' = "true"
                      /\ jobs'[id].state = "pending"
                      /\ jobs'[id].attempts = 0
                      /\ jobs'[id].last_error = NULL
                      /\ \A k \in Ids(jobs) \ {id} : jobs'[k] = jobs[k]
                 ELSE /\ ret' = "false"
                      /\ jobs' = jobs
              /\ \A t \in 0..MaxClock : RetryJobInDb(jobs', id, t) = jobs'
      ]_vars

\* a dead job has just been revived
C9_Witness ==
    /\ ret = "true"
    /\ \E i \in Ids(jobs) :
          /\ jobs[i].state = "pending"
          /\ jobs[i].attempts = 0
          /\ jobs[i].last_error = NULL
          /\ jobs[i].updated_at > jobs[i].created_at

\* C10: only a completed job carries a result.
C10_ResultOnlyWhenCompleted ==
    \A i \in Ids(jobs) : jobs[i].result # NULL => jobs[i].state = "completed"

\* the worker step from the backoff sleep on, when the stop flag was seen
StopPath(w) ==
    /\ (pc[w] = "backoff" /\ stop[w] /\ pc'[w] # pc[w]) => pc'[w] = "stop_requeue"
    /\ (pc[w] = "stop_requeue" /\ pc'[w] # pc[w]) => pc'[w] = "exited"

Observed(w) == pc[w] \in {"stop_requeue", "exited"}

C13_LastErrorIsLatest ==
    [][\A i \in Ids(jobs) :
          /\ (jobs[i].state = "processing" /\ jobs'[i].state \in {"pending", "dead"}) =>
                 \E w \in Workers :
                     /\ Holding(w) /\ ~(Holding(w))'
                     /\ job[w].id = i
                     /\ jobs'[i].last_error = out[w]
          /\ (jobs[i].state = "dead" /\ jobs'[i].state = "dead") =>
                 jobs'[i].last_error = jobs[i].last_error]_vars

\* C14: when the command of a claimed job exits 0 the worker moves the job
\* from processing to completed, stores the output as result and clears
\* last_error; it neither requeues the job nor moves it to dead.
C14_SuccessCompletes ==
    [][\A w \in Workers :
          /\ (pc[w] = "run" /\ pc'[w] = "complete") => out'[w] # NULL
          /\ (pc[w] = "complete" /\ pc'[w] # pc[w]) =>
                 /\ jobs[job[w].id].state = "processing"
                 /\ jobs'[job[w].id].state = "completed"
                 /\ jobs'[job[w].id].result = out[w]
                 /\ jobs'[job[w].id].last_error = NULL
                 /\ \A i \in Ids(jobs) \ {job[w].id} : jobs'[i] = jobs[i]]_vars

\* C15: enqueue with a command and a fresh id adds exactly one record,
\* pending with attempts 0, no last_error, no result and the given
\* max_retries, and changes no other record; enqueue without a command, or
\* under an id already in the store, fails and leaves the store as it was,
\* so an id never has more than the one record it got first.
C15_Enqueue ==
    [][\A id \in JobIds, cmd \in {"exit1", ""}, mr \in {1, MaxRetries} :
          Enqueue(id, cmd, mr) =>
             IF EnqueueExit(jobs, id, cmd) = "enqueued"
             THEN /\ Ids(jobs') = Ids(jobs) \cup {id}
                  /\ id \notin Ids(jobs)
                  /\ jobs'[id].state = "pending"
                  /\ jobs'[id].attempts = 0
                  /\ jobs'[id].last_error = NULL
                  /\ jobs'[id].result = NULL
                  /\ jobs'[id].max_retries = mr
                  /\ jobs'[id].command = cmd
                  /\ \A i \in Ids(jobs) : jobs'[i] = jobs[i]
             ELSE jobs' = jobs]_vars

\* a fresh record next to an older one that a worker has already failed
C15_Witness ==
    \E i, k \in Ids(jobs) :
        /\ i # k
        /\ jobs[i].state = "pending" /\ jobs[i].attempts = 0
        /\ jobs[i].last_error = NULL /\ jobs[i].result = NULL
        /\ jobs[i].updated_at = jobs[i].created_at
        /\ jobs[k].created_at < jobs[i].created_at
        /\ jobs[k].state = "dead" /\ jobs[k].last_error = "boom"

\* C16: `worker stop` signals every recorded pid, waits, kills what is still
\* alive and removes the pid file: when it has returned the pid file is gone
\* and none of the workers it read from the file is still running.
C16_StopLeavesNoWorker ==
    stopper.pc = "returned" =>
        /\ ~registry.exists
        /\ \A w \in stopper.pids : pc[w] = "exited"

\* C17: a store error at the claim or at a resolution write, and a command
\* that times out or cannot be run, do not end the worker: it leaves its
\* loop only on the stop flag, after a failed claim or write it is back at
\* the loop condition and, unless stopped, makes its next claim attempt; a
\* timeout (exit code -1) takes the retry / dead-letter branch of a failed
\* run.
C17_FailuresDoNotStopWorker ==
    /\ [][\A w \in Workers :
            /\ (pc[w] # "exited" /\ pc'[w] = "exited") => stop[w]
            /\ (pc[w] = "update" /\ pc'[w] # pc[w]) => pc'[w] \in {"select", "top"}
            /\ (pc[w] \in {"complete", "requeue", "dead"} /\ pc'[w] # pc[w]) =>
                   pc'[w] = "top"
            /\ (pc[w] = "run" /\ out'[w] = "TimeoutExpired") =>
                   pc'[w] = IF job[w].attempts < job[w].max_retries
                            THEN "backoff" ELSE "dead"]_vars
    /\ (pc[1] # "exited") ~> (pc[1] = "update" \/ stop[1])

\* the worker is at its next claim attempt although a resolution write
\* failed before: the job of that write is still processing
C17_Witness ==
    /\ pc[1] = "update"
    /\ ~stop[1]
    /\ \E i \in Ids(jobs) :
          jobs[i].state = "processing" /\ jobs[i].attempts >= 1

\* the ids of the snapshot `dlq retry --all` is working on
Snapshot == {dlq.rows[k] : k \in 1..Len(dlq.rows)}

\* C18: `dlq retry --all` takes a snapshot of exactly the jobs that are dead,
\* revives each snapshot job that is still dead when its turn comes and
\* counts it, leaves a snapshot job that is no longer dead alone and does
\* not count it, and touches no job outside the snapshot (so none that
\* became dead later); the count it returns is the count of these revivals.
C18_RetryAll ==
    [][/\ (dlq'.pc # dlq.pc /\ dlq.pc \in {"idle", "returned"}) =>
             /\ Snapshot' = InState(jobs, "dead")
             /\ Len(dlq'.rows) = Cardinality(InState(jobs, "dead"))
             /\ dlq'.cnt = 0
             /\ jobs' = jobs
       /\ (dlq.pc = "loop" /\ dlq'.i # dlq.i) =>
             LET id == dlq.rows[dlq.i]
             IN /\ id \in Snapshot
                /\ \A k \in Ids(jobs) \ {id} : jobs'[k] = jobs[k]
                /\ IF jobs[id].state = "dead"
                   THEN /\ jobs'[id].state = "pending"
                        /\ jobs'[id].attempts = 0
                        /\ jobs'[id].last_error = NULL
                        /\ dlq'.cnt = dlq.cnt + 1
                   ELSE /\ jobs'[id] = jobs[id]
                        /\ dlq'.cnt = dlq.cnt
       /\ (dlq.pc = "loop" /\ dlq'.pc = "returned") =>
             /\ dlq'.cnt = dlq.cnt
             /\ dlq.i = Len(dlq.rows) + 1
             /\ jobs' = jobs]_vars

\* retry --all has returned 1 for a snapshot of two jobs: the other one was
\* revived by someone else before its turn, and a worker has moved it to
\* dead again since
C18_Witness ==
    /\ dlq.pc = "returned"
    /\ Len(dlq.rows) = 2
    /\ dlq.cnt = 1
    /\ \E k \in Snapshot : jobs[k].state = "dead"

\* C19: no step changes the id, command, max_retries or created_at of a
\* record that exists, or removes a record, and every step changes the
\* record of at most one job.
C19_Frame ==
    [][/\ \A i \in Ids(jobs) :
             /\ i \in Ids(jobs')
             /\ jobs'[i].command = jobs[i].command
             /\ jobs'[i].max_retries = jobs[i].max_retries
             /\ jobs'[i].created_at = jobs[i].created_at
       /\ \A i, k \in Ids(jobs) :
             (jobs'[i] # jobs[i] /\ jobs'[k] # jobs[k]) => i = k
       /\ Ids(jobs') # Ids(jobs) => \A i \in Ids(jobs) : jobs'[i] = jobs[i]]_vars

\* a job has been claimed, failed and revived (attempts back to 0, updated
\* after it was created) next to a second job that is completed
C19_Witness ==
    \E i, k \in Ids(jobs) :
        /\ i # k
        /\ jobs[i].state = "pending" /\ jobs[i].attempts = 0
        /\ jobs[i].updated_at > jobs[i].created_at
        /\ jobs[i].command = "flaky"
        /\ jobs[k].state = "completed"

\* C20: the delay a worker waits before it requeues a failed job with
\* attempts a and base b is min(b^a, 86400): 32 for b = 2 and a = 5, not
\* smaller than for any lower attempt count when b >= 1, never above 86400.
C20_BackoffDelay ==
    \A w \in Workers :
        pc[w] = "backoff" =>
            LET b == backoff[w].base
                a == job[w].attempts
                d == backoff[w].delay
            IN /\ d = IF Pow(b, a) < 86400 THEN Pow(b, a) ELSE 86400
               /\ d <= 86400
               /\ (b = 2 /\ a = 5) => d = 32
               /\ b >= 1 => \A a2 \in 0..a : BackoffDelay(b, a2) <= d

\* base 2 and 17 attempts: 2^17 is above the cap, the worker waits 86400 s
C20_Witness ==
    /\ pc[1] = "backoff"
    /\ backoff[1].base = 2
    /\ job[1].attempts = 17
    /\ backoff[1].delay = 86400

\* the workers spawned by start call s
Spawned(s) == {sup[s].procs[k] : k \in 1..Len(sup[s].procs)}

\* the pid file is there and holds one entry for each worker of start call
\* s and no other entry, each with a pid and the time of a clock reading
OneEntryPerWorker(s) ==
    /\ registry.exists
    /\ Len(registry.entries) = sup[s].count
    /\ \A w \in Spawned(s) :
          Cardinality({k \in 1..Len(registry.entries) : registry.entries[k].pid = w}) = 1
    /\ \A k \in 1..Len(registry.entries) :
          /\ registry.entries[k].pid \in Spawned(s)
          /\ registry.entries[k].started_at \in 0..clock

\* start call s has spawned all its workers and none of them is alive
AllGone(s) ==
    /\ sup[s].pc \in {"spawn", "watch", "cleanup"}
    /\ Len(sup[s].procs) = sup[s].count
    /\ \A w \in Spawned(s) : ~Alive(w)

C22_KilledJobStaysProcessing ==
    [][\A w \in Workers :
          (pc[w] = "killed" /\ jobs[job[w].id].state = "processing") =>
              /\ jobs'[job[w].id] = jobs[job[w].id]
              /\ \A v \in Workers : claimed'[v].id = job[w].id => claimed[v].id = job[w].id
              /\ Revive(job[w].id) => ret' = "false"]_vars

\* C23: with workers that keep running, no stop signal, no crash, no store
\* failure and commands that terminate, every enqueued job eventually is
\* completed or dead, also when several workers claim at the same time.
C23_EveryJobFinishes ==
    \A i \in JobIds :
        (i \in Ids(jobs)) ~> (i \in Ids(jobs) /\ jobs[i].state \in {"completed", "dead"})

\* C24: every job in processing is held by a running worker that will write
\* its resolution: one that is running its command, is sleeping its backoff
\* or is at the resolution write, or one that has marked a row and is about
\* to read this job back.
C24_ProcessingIsHeld ==
    \A i \in Ids(jobs) :
        jobs[i].state = "processing" =>
            \E w \in Workers :
                /\ Alive(w)
                /\ \/ Holding(w) /\ job[w].id = i
                   \/ pc[w] = "select" /\ i \in LatestProcessing(jobs)

\* C25: the stored attempts of a job with max_retries >= 1 never exceeds its
\* max_retries, whatever the workers and the operator do.
C25_AttemptsWithinMaxRetries ==
    \A i \in Ids(jobs) :
        jobs[i].max_retries >= 1 => jobs[i].attempts <= jobs[i].max_retries

\* job i is in processing and no worker holds it or is about to read it back
Stranded(i) ==
    /\ i \in Ids(jobs)
    /\ jobs[i].state = "processing"
    /\ \A w \in Workers : ~(Holding(w) /\ job[w].id = i) /\ pc[w] # "select"

\* C26: a worker lets go of a job by exactly one resolution write (completed,
\* pending or dead) to the job it claimed, and a job whose resolution write
\* failed with a store error is still moved out of processing eventually
\* (as long as no worker has been told to stop).
C26_OneResolutionPerClaim ==
    /\ [][\A w \in Workers :
            /\ (Holding(w) /\ ~(Holding(w))') =>
                   /\ Resolves(w)
                   /\ job[w].id = claimed[w].id
                   /\ \A k \in Ids(jobs) \ {job[w].id} : jobs'[k] = jobs[k]
                   /\ \/ jobs' = jobs
                      \/ jobs'[job[w].id].state \in {"completed", "pending", "dead"}
            /\ Resolves(w) => ~(Holding(w))']_vars
    /\ \A i \in 1..NOneJobs :
          Stranded(i) ~> \/ ~(i \in Ids(jobs) /\ jobs[i].state = "processing")
                         \/ \E w \in Workers : stop[w]

\* C27: every worker of a pool whose start call has written the pid file
\* is, for as long as the worker process is alive, recorded in the pid
\* file; neither `worker stop` nor another `worker start` takes a live
\* worker out of it.
C27_LiveWorkersAreRegistered ==
    \A s \in Sups :
        sup[s].pc \in {"watch", "cleanup"} =>
            \A w \in Spawned(s) :
                Alive(w) => (registry.exists /\ w \in ReadPidsFile(registry))

====
